---- MODULE Spec2Model ----
(***************************************************************************)
(* A model of the analytics pipeline of src/assign-2.py: the dataset       *)
(* provider (load_real_data / generate_sample_data), the per-field         *)
(* aggregation, the three analytics operators and the JSON endpoints that  *)
(* use them.                                                               *)
(*                                                                         *)
(* Numbers.  Floats are modelled as integers: sensor and synthetic values  *)
(* in whole units unless a definition says hundredths or tenths.  The      *)
(* process-wide NumPy generator is modelled as a small linear congruential *)
(* generator: a deterministic function of its state, re-seeded by          *)
(* np.random.seed and advanced by every draw.                              *)
(***************************************************************************)
EXTENDS Integers, Sequences, FiniteSets, TLC

(***************************************************************************)
(* Bounds of the model.                                                    *)
(***************************************************************************)
\* number of states of the modelled generator
RngMod == 4
\* a draw is a fraction of this many parts
Resolution == 1024
\* largest horizon forecast_yield is called with directly
MaxDays == 3
\* largest page number of /api/forecast-data
MaxPage == 3
\* the calls with one farm that the history counts
MaxRepeat == 2

(***************************************************************************)
(* Program constants.                                                      *)
(***************************************************************************)
NoValue == "None"

\* line 27-29: the required columns
Required == {"date", "temperature", "humidity", "soil_moisture", "rainfall",
             "crop_yield", "field", "crop_type", "ndvi", "pest_risk",
             "disease_risk", "water_stress", "equipment_hours", "co2_emission"}

\* line 60, 61: the values of the synthetic categorical columns
FieldNames == <<"Field A", "Field B", "Field C", "Field D">>
CropNames == <<"Corn", "Wheat", "Soybeans">>

\* line 50: the seed without a farm, and the modulus of the farm's hash
BaseSeed == 42
HashMod == 100

\* line 912: n_clusters
NClusters == 3
\* line 93: contamination, as a percentage
ContaminationPct == 20
\* line 98: the default horizon; line 950: the number of labels
DefaultDays == 30
PageLen == 30
\* line 949: the page adjustment 0.05, in hundredths
PageStepPct == 5

Range(s) == {s[i] : i \in 1..Len(s)}

\* a sequence given as a function, with every element evaluated once
AsSeq(f) == SelectSeq(f, LAMBDA x : TRUE)

\* a record given as a function of its column names, evaluated once
AsRecord(f) == f @@ <<>>

\* F of the value of v, v being evaluated once
Bind(v, F(_)) == CHOOSE y \in {F(x) : x \in {v}} : TRUE

(***************************************************************************)
(* Calendar: pd.date_range(start='2024-01-01', end='2024-03-31', freq='D') *)
(* and pd.to_datetime.  A date is <<year, month, day>>; a datetime is the  *)
(* number of days since 2024-01-01.                                        *)
(***************************************************************************)
EpochYear == 2024
StartDate == <<2024, 1, 1>>
EndDate == <<2024, 3, 31>>

IsLeap(y) == (y % 4 = 0 /\ y % 100 # 0) \/ y % 400 = 0

DaysInMonth(y, m) ==
    IF m = 2 THEN (IF IsLeap(y) THEN 29 ELSE 28)
    ELSE IF m \in {4, 6, 9, 11} THEN 30 ELSE 31

DaysInYear(y) == IF IsLeap(y) THEN 366 ELSE 365

RECURSIVE DaysBeforeMonth(_, _)
DaysBeforeMonth(y, m) ==
    IF m <= 1 THEN 0 ELSE DaysBeforeMonth(y, m - 1) + DaysInMonth(y, m - 1)

RECURSIVE DaysBeforeYear(_)
DaysBeforeYear(y) ==
    IF y = EpochYear THEN 0
    ELSE IF y > EpochYear THEN DaysBeforeYear(y - 1) + DaysInYear(y - 1)
    ELSE DaysBeforeYear(y + 1) - DaysInYear(y)

\* a cell of the date column that pd.to_datetime can parse
IsDate(c) ==
    /\ Len(c) = 3
    /\ c[2] \in 1..12
    /\ c[3] \in 1..DaysInMonth(c[1], c[2])

Ordinal(c) == DaysBeforeYear(c[1]) + DaysBeforeMonth(c[1], c[2]) + (c[3] - 1)

\* pd.date_range(start, end, freq='D'): every day from start to end, both included
\* a faulty variant of DateRange, which leaves the end date out
DateRangeOpen(start, end) ==
    AsSeq([i \in 1..(Ordinal(end) - Ordinal(start)) |-> Ordinal(start) + i - 1])

DateRange(start, end) ==
    AsSeq([i \in 1..(Ordinal(end) - Ordinal(start) + 1) |-> Ordinal(start) + (i - 1)])

(***************************************************************************)
(* The process-wide NumPy generator.                                       *)
(***************************************************************************)
\* np.random.seed(s): the state is a function of the seed alone
NpSeed(s) == (7 * s + 1) % RngMod

\* the state after one draw
RngNext(r) == (13 * r + 3) % RngMod

\* k draws compose to one affine map r |-> a * r + c, found by halving k
RECURSIVE RngJump(_)
RngJump(k) ==
    IF k = 0 THEN [a |-> 1, c |-> 0]
    ELSE LET h == RngJump(k \div 2)
             d == [a |-> (h.a * h.a) % RngMod, c |-> (h.a * h.c + h.c) % RngMod]
         IN IF k % 2 = 0 THEN d
            ELSE [a |-> (13 * d.a) % RngMod, c |-> (13 * d.c + 3) % RngMod]

\* the state after k draws
RngSkip(r, k) == LET j == RngJump(k) IN (j.a * r + j.c) % RngMod

\* the states that n successive draws read, starting at r
Draws(r, n) == AsSeq([i \in 1..n |-> RngSkip(r, i - 1)])

\* random_sample(): the double in [0, 1) that a draw in state r gives, in
\* parts of Resolution; the smallest is 0 and the largest Resolution - 1
Frac(r) == (r * (Resolution - 1)) \div (RngMod - 1)

\* np.random.uniform(lo, hi), bounds and result in hundredths: lo <= x < hi
Uniform(lo, hi, r) == lo + ((hi - lo) * Frac(r)) \div Resolution

\* np.random.randint(lo, hi): lo <= x < hi
RandInt(lo, hi, r) == lo + ((hi - lo) * Frac(r)) \div Resolution

\* np.random.normal(mu, sigma): mu + sigma * z, z within three deviations
Normal(mu, sigma, r) == mu + (sigma * (6 * Frac(r) - 3 * Resolution)) \div Resolution

\* np.random.exponential(scale): non-negative, large as the draw approaches 1
Exponential(scale, r) == (scale * Frac(r)) \div (Resolution - Frac(r))

\* np.random.choice(a): one element of a, each as likely
Choice(a, r) == a[1 + (Len(a) * Frac(r)) \div Resolution]

\* round(x, 1) of x given in hundredths, in tenths (ties to the even tenth)
Round1(c) ==
    LET q == c \div 10
        m == c % 10
    IN IF m > 5 \/ (m = 5 /\ q % 2 = 1) THEN q + 1 ELSE q

(***************************************************************************)
(* The backing file agriculture.csv, as os.path.exists and pd.read_csv see *)
(* it: whether it exists, whether read_csv can read it, the columns its    *)
(* header names and its rows.  A cell of the date column is <<y, m, d>>    *)
(* when it can be parsed and <<>> when it cannot.                          *)
(***************************************************************************)
FileRow(date, field, crop, farm, yield, hours) ==
    [date |-> date, temperature |-> 20 + hours \div 100, humidity |-> 60,
     soil_moisture |-> 70, rainfall |-> 5, crop_yield |-> yield, field |-> field,
     crop_type |-> crop, ndvi |-> 70, pest_risk |-> 10, disease_risk |-> 10,
     water_stress |-> 10, equipment_hours |-> hours, co2_emission |-> 3000,
     farm |-> farm]

GoodRows ==
    << FileRow(<<2023, 6, 1>>, "Field B", "Corn", "Green Valley Farm", 1000, 100),
       FileRow(<<2023, 6, 2>>, "Field E", "Rice", "Sunny Acres", 900, 450),
       FileRow(<<2023, 6, 3>>, "Field B", "Wheat", "Green Valley Farm", 1100, 300),
       FileRow(<<2023, 6, 4>>, "Field A", "Corn", "Sunny Acres", 1200, 200) >>

\* the same rows, the second with a date that cannot be parsed
BadDateRows == [GoodRows EXCEPT ![2].date = <<>>]

NoFile == [exists |-> FALSE, readable |-> FALSE, columns |-> {}, rows |-> <<>>]

\* a file pd.read_csv raises on
Unreadable == [exists |-> TRUE, readable |-> FALSE, columns |-> {}, rows |-> <<>>]

\* a file whose header names every required column but one
Lacking(col) ==
    [exists |-> TRUE, readable |-> TRUE, columns |-> (Required \ {col}) \cup {"farm"},
     rows |-> GoodRows]

\* a file with the required columns and the extra ones, and their cells
CompleteFile(rows, extra) ==
    [exists |-> TRUE, readable |-> TRUE, columns |-> Required \cup extra,
     rows |-> AsSeq([i \in 1..Len(rows) |->
                 AsRecord([c \in Required \cup extra |-> rows[i][c]])])]

\* the columns the model's files lack
LackedColumns == {"date", "crop_type", "co2_emission"}

FileStates ==
    {NoFile, Unreadable}
      \cup {Lacking(col) : col \in LackedColumns}
      \cup {CompleteFile(GoodRows, {}), CompleteFile(GoodRows, {"farm"}),
            CompleteFile(BadDateRows, {"farm"}), CompleteFile(<<>>, {})}

(***************************************************************************)
(* load_real_data (lines 22-34)                                            *)
(***************************************************************************)
\* a faulty variant of load_real_data, without the check of lines 27-30
load_real_data_any(f) ==
    IF f.exists /\ f.readable
    THEN [none |-> FALSE, columns |-> f.columns, rows |-> f.rows]
    ELSE [none |-> TRUE, columns |-> {}, rows |-> <<>>]

\* [none |-> TRUE] is None; otherwise the frame read from the file
load_real_data(f) ==
    IF f.exists /\ f.readable /\ (\A col \in Required : col \in f.columns)
    THEN [none |-> FALSE, columns |-> f.columns, rows |-> f.rows]
    ELSE [none |-> TRUE, columns |-> {}, rows |-> <<>>]

(***************************************************************************)
(* generate_sample_data (lines 38-71)                                      *)
(***************************************************************************)
\* Python truth of the farm argument: None (NoValue) and '' are false
Truthy(farm) == farm # NoValue /\ farm # ""

\* line 50: 42 + hash(farm) % 100 if farm else 42
SeedOf(farm, hash) ==
    IF Truthy(farm) THEN BaseSeed + (hash[farm] % HashMod) ELSE BaseSeed

\* df[df['crop_type'].isin(crops)]
IsInCrops(rows, crops) ==
    LET wanted == Range(crops)
    IN SelectSeq(rows, LAMBDA row : row.crop_type \in wanted)

\* a faulty variant of FilterCrops, which filters nothing
FilterCropsKeepAll(rows, crops) == rows

\* lines 42-43 and 69-70: "if crops:" is false for None and for the empty
\* list, both written <<>>
FilterCrops(rows, crops) == IF crops # <<>> THEN IsInCrops(rows, crops) ELSE rows

\* lines 51-68: the frame drawn from the generator's state r0, one column
\* after the other, and the generator's state after the last draw
SyntheticFrame(r0) ==
    LET dates == DateRange(StartDate, EndDate)
        n == Len(dates)
        w == Draws(r0, 13 * n)
        \* the draw of row i of the k-th column drawn
        at(k, i) == w[(k - 1) * n + i]
    IN [rows |-> AsSeq(
          [i \in 1..n |->
             [date |-> dates[i],
              temperature |-> Normal(25, 5, at(1, i)),
              humidity |-> Normal(65, 10, at(2, i)),
              soil_moisture |-> Normal(70, 15, at(3, i)),
              rainfall |-> Exponential(5, at(4, i)),
              crop_yield |-> Normal(1200, 200, at(5, i)),
              field |-> Choice(FieldNames, at(6, i)),
              crop_type |-> Choice(CropNames, at(7, i)),
              ndvi |-> Uniform(50, 90, at(8, i)),
              pest_risk |-> Uniform(0, 100, at(9, i)),
              disease_risk |-> Uniform(0, 100, at(10, i)),
              water_stress |-> Uniform(0, 100, at(11, i)),
              equipment_hours |-> RandInt(0, 500, at(12, i)),
              co2_emission |-> Uniform(1000, 5000, at(13, i))]]),
        rng |-> RngSkip(r0, 13 * n)]

\* the frame of every state of the generator, each made once
SyntheticFrames == AsSeq([k \in 1..RngMod |-> SyntheticFrame(k - 1)])

\* the states the n draws of one column read, for every state the generator
\* can be in when the column is drawn
ColumnDraws ==
    AsSeq([k \in 1..RngMod |-> Draws(k - 1, Len(DateRange(StartDate, EndDate)))])

\* the state the generator is left in by a column drawn from state r
AfterColumn(r) == RngNext(ColumnDraws[r + 1][Len(ColumnDraws[r + 1])])

\* lines 53-68 when the k-th column is drawn from the state starts[k]: the
\* columns are drawn by 13 calls of np.random, one after the other
FrameOfColumns(starts) ==
    LET dates == DateRange(StartDate, EndDate)
        at(k, i) == ColumnDraws[starts[k] + 1][i]
    IN AsSeq(
          [i \in 1..Len(dates) |->
             [date |-> dates[i],
              temperature |-> Normal(25, 5, at(1, i)),
              humidity |-> Normal(65, 10, at(2, i)),
              soil_moisture |-> Normal(70, 15, at(3, i)),
              rainfall |-> Exponential(5, at(4, i)),
              crop_yield |-> Normal(1200, 200, at(5, i)),
              field |-> Choice(FieldNames, at(6, i)),
              crop_type |-> Choice(CropNames, at(7, i)),
              ndvi |-> Uniform(50, 90, at(8, i)),
              pest_risk |-> Uniform(0, 100, at(9, i)),
              disease_risk |-> Uniform(0, 100, at(10, i)),
              water_stress |-> Uniform(0, 100, at(11, i)),
              equipment_hours |-> RandInt(0, 500, at(12, i)),
              co2_emission |-> Uniform(1000, 5000, at(13, i))]])

\* lines 40-48: the frame of the backing file, filtered
RealFrame(real_df, farm, crops, r) ==
    Bind(FilterCrops(real_df.rows, crops), LAMBDA byCrop :
    Bind(IF Truthy(farm) /\ "farm" \in real_df.columns
         THEN SelectSeq(byCrop, LAMBDA row : row.farm = farm)
         ELSE byCrop, LAMBDA byFarm :
      IF \A i \in 1..Len(byFarm) : IsDate(byFarm[i].date)
      THEN [raised |-> FALSE, real |-> TRUE, rng |-> r,
            rows |-> AsSeq([i \in 1..Len(byFarm) |->
                        [byFarm[i] EXCEPT !.date = Ordinal(byFarm[i].date)]])]
      ELSE [raised |-> TRUE, real |-> TRUE, rng |-> r, rows |-> <<>>]))

\* a faulty variant of SampleFrame, whose seed depends on the crops asked for
SampleFrameSeededByCrops(farm, hash, crops) ==
    LET df == SyntheticFrames[NpSeed(SeedOf(farm, hash) + Len(crops)) + 1]
    IN [raised |-> FALSE, real |-> FALSE, rng |-> df.rng,
        rows |-> FilterCrops(df.rows, crops)]

\* lines 50-71: np.random.seed, the draws, the crop filter
SampleFrame(farm, hash, crops) ==
    LET df == SyntheticFrames[NpSeed(SeedOf(farm, hash)) + 1]
    IN [raised |-> FALSE, real |-> FALSE, rng |-> df.rng,
        rows |-> FilterCrops(df.rows, crops)]

\* a faulty variant of generate_sample_data, without the np.random.seed of
\* line 50: the synthetic frame is drawn from the generator as it stands
generate_sample_data_unseeded(f, hash, r, farm, crops) ==
    Bind(load_real_data(f), LAMBDA real_df :
      IF ~real_df.none
      THEN RealFrame(real_df, farm, crops, r)
      ELSE [raised |-> FALSE, real |-> FALSE, rng |-> SyntheticFrames[r + 1].rng,
            rows |-> FilterCrops(SyntheticFrames[r + 1].rows, crops)])

\* a faulty variant of generate_sample_data, which draws the synthetic frame
\* from a generator of its own and leaves np.random as it stands
generate_sample_data_local(f, hash, r, farm, crops) ==
    Bind(load_real_data(f), LAMBDA real_df :
      IF ~real_df.none
      THEN RealFrame(real_df, farm, crops, r)
      ELSE [SampleFrame(farm, hash, crops) EXCEPT !.rng = r])

\* the call's outcome: whether pd.to_datetime raised, whether the rows come
\* from the file, the rows, and the generator's state when it returns
generate_sample_data(f, hash, r, farm, crops) ==
    Bind(load_real_data(f), LAMBDA real_df :
      IF ~real_df.none
      THEN RealFrame(real_df, farm, crops, r)
      ELSE SampleFrame(farm, hash, crops))

(***************************************************************************)
(* The per-field aggregation: df.groupby('field').agg({col: 'mean', ...})  *)
(* .reset_index() (lines 85-91, 906-908).  groupby sorts its keys.         *)
(***************************************************************************)
\* the field names in the order Python's string comparison gives them
Alphabet == <<"Field A", "Field B", "Field C", "Field D", "Field E">>

AlphaRank(name) == CHOOSE k \in 1..Len(Alphabet) : Alphabet[k] = name

\* a faulty variant of SortedKeys, which sorts from the last name to the first
SortedKeysDescending(S) ==
    AsSeq([k \in 1..Cardinality(S) |->
       CHOOSE f \in S : Cardinality({g \in S : AlphaRank(g) > AlphaRank(f)}) = k - 1])

\* the elements of a set of field names, sorted
SortedKeys(S) ==
    AsSeq([k \in 1..Cardinality(S) |->
       CHOOSE f \in S : Cardinality({g \in S : AlphaRank(g) < AlphaRank(f)}) = k - 1])

\* the sum of column col over the first n rows
RECURSIVE SumTo(_, _, _)
SumTo(rows, col, n) ==
    IF n = 0 THEN 0 ELSE SumTo(rows, col, n - 1) + rows[n][col]

\* Series.sum()
SumOf(rows, col) == SumTo(rows, col, Len(rows))

\* Series.mean() of a non-empty column, rounded down
MeanOf(rows, col) == SumOf(rows, col) \div Len(rows)

\* a faulty variant of GroupByFieldMean, which does not group: a record per row
GroupByRow(rows, cols) ==
    AsSeq([i \in 1..Len(rows) |->
             [field |-> rows[i].field] @@ AsRecord([c \in cols |-> rows[i][c]])])

GroupByFieldMean(rows, cols) ==
    Bind(SortedKeys({rows[i].field : i \in 1..Len(rows)}), LAMBDA keys :
      AsSeq([k \in 1..Len(keys) |->
         Bind(SelectSeq(rows, LAMBDA row : row.field = keys[k]), LAMBDA group :
           [field |-> keys[k]] @@ AsRecord([c \in cols |-> MeanOf(group, c)]))]))

ClusterCols == {"temperature", "humidity", "soil_moisture", "crop_yield"}
AnomalyCols == {"temperature", "humidity", "soil_moisture", "crop_yield",
                "equipment_hours"}

(***************************************************************************)
(* The library operators.  Each is a deterministic function of its input   *)
(* (fixed random_state); the model keeps the parts of their contracts the  *)
(* callers rely on and a simple stand-in for the numerics.                 *)
(***************************************************************************)
Sign(x) == IF x > 0 THEN 1 ELSE IF x < 0 THEN 0 - 1 ELSE 0

Abs(x) == IF x < 0 THEN 0 - x ELSE x

\* StandardScaler().fit_transform(features), line 910-911: every column is
\* centred on its mean; the model keeps the side of the mean a value is on.
\* sklearn raises ValueError on a frame without rows.
StandardScalerRaises(X) == Len(X) = 0

StandardScaler(X, cols) ==
    AsSeq([i \in 1..Len(X) |->
             AsRecord([c \in cols |-> Sign(Len(X) * X[i][c] - SumOf(X, c))])])

SqDist(a, b, cols) ==
    LET RECURSIVE Acc(_)
        Acc(S) == IF S = {} THEN 0
                  ELSE LET c == CHOOSE c \in S : TRUE
                       IN (a[c] - b[c]) * (a[c] - b[c]) + Acc(S \ {c})
    IN Acc(cols)

\* KMeans(n_clusters=3, random_state=42).fit_predict(scaled), line 912-913:
\* sklearn raises ValueError when there are fewer samples than clusters;
\* otherwise every sample gets the label of its nearest centre, the centres
\* being the first n_clusters samples.
KMeansRaises(X) == Len(X) < NClusters

\* a faulty variant of KMeansLabels, which numbers the clusters from 1
KMeansLabelsFromOne(X, cols) ==
    AsSeq([i \in 1..Len(X) |->
       CHOOSE k \in 1..NClusters :
          /\ \A j \in 1..NClusters : SqDist(X[i], X[k], cols) <= SqDist(X[i], X[j], cols)
          /\ \A j \in 1..(k - 1) : SqDist(X[i], X[k], cols) < SqDist(X[i], X[j], cols)])

KMeansLabels(X, cols) ==
    AsSeq([i \in 1..Len(X) |->
       (CHOOSE k \in 1..NClusters :
          /\ \A j \in 1..NClusters : SqDist(X[i], X[k], cols) <= SqDist(X[i], X[j], cols)
          /\ \A j \in 1..(k - 1) : SqDist(X[i], X[k], cols) < SqDist(X[i], X[j], cols))
       - 1])

\* IsolationForest.score_samples: the lower, the more abnormal.  The model
\* scores a row by how far it lies from the column means.
ScoreSamples(X, cols) ==
    AsSeq([i \in 1..Len(X) |->
       LET RECURSIVE Acc(_)
           Acc(S) == IF S = {} THEN 0
                     ELSE LET c == CHOOSE c \in S : TRUE
                          IN Abs(Len(X) * X[i][c] - SumOf(X, c)) + Acc(S \ {c})
       IN 0 - Acc(cols)])

\* the scores in ascending order
SortedScores(scores) ==
    LET n == Len(scores)
        before(i) == Cardinality({j \in 1..n : scores[j] < scores[i]
                                               \/ (scores[j] = scores[i] /\ j < i)})
    IN AsSeq([k \in 1..n |-> scores[CHOOSE i \in 1..n : before(i) = k - 1]])

\* IsolationForest(contamination=0.2).fit_predict(features), line 93-94:
\* offset_ = np.percentile(scores, 100 * contamination), with linear
\* interpolation between the two nearest ranks; a row is an outlier (-1) when
\* its score is below offset_.  The comparison is made on 100 times the
\* values, which keeps it in integers.  sklearn raises ValueError on a frame
\* without rows.
IsolationForestRaises(X) == Len(X) = 0

\* a faulty variant of FitPredict, which takes contamination for the share of
\* inliers: the threshold is the percentile 100 - pct
FitPredictUpper(scores, pct) ==
    LET n == Len(scores)
        pos == (100 - pct) * (n - 1)
        lo == pos \div 100
        frac == pos % 100
        hi == IF lo + 2 <= n THEN lo + 2 ELSE n
    IN Bind(SortedScores(scores), LAMBDA s :
       Bind(100 * s[lo + 1] + frac * (s[hi] - s[lo + 1]), LAMBDA offset100 :
         AsSeq([i \in 1..n |-> IF 100 * scores[i] < offset100 THEN 0 - 1 ELSE 1])))

FitPredict(scores, pct) ==
    LET n == Len(scores)
        pos == pct * (n - 1)
        lo == pos \div 100
        frac == pos % 100
        hi == IF lo + 2 <= n THEN lo + 2 ELSE n
    IN Bind(SortedScores(scores), LAMBDA s :
       Bind(100 * s[lo + 1] + frac * (s[hi] - s[lo + 1]), LAMBDA offset100 :
         AsSeq([i \in 1..n |-> IF 100 * scores[i] < offset100 THEN 0 - 1 ELSE 1])))

\* sm.tsa.ARIMA(series, order=(1,1,1)).fit().forecast(steps), line 100-101:
\* the fit raises on an empty series; forecast(steps) asks for the
\* predictions nobs .. nobs + steps - 1 and raises ValueError when that range
\* is empty.  The model's prediction repeats the last observation.
ArimaRaises(series, steps) == Len(series) = 0 \/ steps < 1

ArimaForecast(series, steps) == AsSeq([i \in 1..steps |-> series[Len(series)]])

(***************************************************************************)
(* Helper functions (lines 74-115).  Each is given the backing file, the   *)
(* hashes and the generator's state, and returns its result, whether it    *)
(* raised, and the generator's state when it returns.                      *)
(***************************************************************************)
NoCall == [called |-> FALSE, farm |-> NoValue, crops |-> <<>>, raised |-> FALSE,
           real |-> FALSE, rows |-> <<>>]
NoAgg == [called |-> FALSE, rows |-> <<>>, pred |-> <<>>]

\* what is kept of a call of generate_sample_data: its arguments and result
Called(farm, crops, df) ==
    [called |-> TRUE, farm |-> farm, crops |-> crops, raised |-> df.raised,
     real |-> df.real, rows |-> df.rows]

\* Series.mean(): NaN on an empty column
MeanOrNaN(rows, col) == IF Len(rows) = 0 THEN "nan" ELSE MeanOf(rows, col)

\* lines 74-82; the call always passes filters (line 888-889)
get_kpi_data(f, hash, r, farm, crops) ==
    Bind(generate_sample_data(f, hash, r, farm, crops), LAMBDA df :
       [raised |-> df.raised, rng |-> df.rng, call |-> Called(farm, crops, df),
        kpi |-> IF df.raised THEN <<>>
                ELSE [total_yield |-> SumOf(df.rows, "crop_yield"),
                      avg_temp |-> MeanOrNaN(df.rows, "temperature"),
                      avg_soil_moisture |-> MeanOrNaN(df.rows, "soil_moisture"),
                      total_rainfall |-> SumOf(df.rows, "rainfall"),
                      co2_footprint |-> MeanOrNaN(df.rows, "co2_emission")]])

\* lines 84-96
detect_anomalies(f, hash, r) ==
    Bind(generate_sample_data(f, hash, r, NoValue, <<>>), LAMBDA df :
    Bind(GroupByFieldMean(df.rows, AnomalyCols), LAMBDA grouped :
    Bind(ScoreSamples(grouped, AnomalyCols), LAMBDA scores :
    Bind(IF IsolationForestRaises(grouped) THEN <<>>
         ELSE FitPredict(scores, ContaminationPct), LAMBDA pred :
    Bind(SelectSeq([i \in 1..Len(pred) |-> i], LAMBDA i : pred[i] = 0 - 1),
         LAMBDA flagged :
      LET raised == df.raised \/ IsolationForestRaises(grouped)
      IN [raised |-> raised, rng |-> df.rng, call |-> Called(NoValue, <<>>, df),
          agg |-> IF df.raised THEN NoAgg
                  ELSE [called |-> TRUE, rows |-> grouped, pred |-> pred],
          anomalies |-> IF raised THEN <<>>
                        ELSE AsSeq([k \in 1..Len(flagged) |->
                                      grouped[flagged[k]].field])])))))

\* lines 98-102
forecast_yield(f, hash, r, days) ==
    Bind(generate_sample_data(f, hash, r, NoValue, <<>>), LAMBDA df :
    Bind(AsSeq([i \in 1..Len(df.rows) |-> df.rows[i].crop_yield]), LAMBDA series :
      LET raised == df.raised \/ ArimaRaises(series, days)
      IN [raised |-> raised, rng |-> df.rng, call |-> Called(NoValue, <<>>, df),
          forecast |-> IF raised THEN <<>> ELSE ArimaForecast(series, days)]))

\* lines 104-109: the message names the anomalous fields, if any
get_ai_recommendation(f, hash, r) ==
    Bind(detect_anomalies(f, hash, r), LAMBDA found :
      [raised |-> found.raised, rng |-> found.rng, call |-> found.call,
       agg |-> found.agg,
       message |-> [alert |-> found.anomalies # <<>>, fields |-> found.anomalies]])

\* the row a field first appears in
FirstRow(rows, name) ==
    CHOOSE i \in 1..Len(rows) :
       rows[i].field = name /\ \A j \in 1..(i - 1) : rows[j].field # name

\* the distinct fields of the rows, in the order they first appear
FirstSeen(rows) ==
    Bind({rows[i].field : i \in 1..Len(rows)}, LAMBDA S :
    Bind([name \in S |-> FirstRow(rows, name)] @@ <<>>, LAMBDA first :
      AsSeq([k \in 1..Cardinality(S) |->
         CHOOSE name \in S :
            Cardinality({other \in S : first[other] < first[name]}) = k - 1])))

\* px.line(df, x='date', y='crop_yield', color='field'), lines 892 and 964:
\* one trace per field, in the order the fields first appear
LineTraces(rows) ==
    Bind(FirstSeen(rows), LAMBDA names :
      AsSeq([k \in 1..Len(names) |->
         Bind(SelectSeq(rows, LAMBDA row : row.field = names[k]), LAMBDA own :
           [name |-> names[k],
            x |-> AsSeq([i \in 1..Len(own) |-> own[i].date]),
            y |-> AsSeq([i \in 1..Len(own) |-> own[i].crop_yield])])]))

(***************************************************************************)
(* The API endpoints.  What a handler does is a function of the backing    *)
(* file, the hashes, the generator's state and the request: the state the  *)
(* generator is left in, the handler's last call of generate_sample_data,  *)
(* its per-field aggregation and the response.                             *)
(***************************************************************************)
\* an exception that leaves the handler (Flask answers 500), and a response
ServerError == [raised |-> TRUE, body |-> <<>>]
Ok(body) == [raised |-> FALSE, body |-> body]

Outcome(r, call, grouped, response) ==
    [rng |-> r, call |-> call, agg |-> grouped, resp |-> response]

\* a faulty variant of dashboard_data, whose ai_message is made from the
\* filtered dataset of the request
dashboard_data_filtered_alert(f, hash, r, farm, crops) ==
    Bind(get_kpi_data(f, hash, r, farm, crops), LAMBDA kpi :
    Bind(generate_sample_data(f, hash, kpi.rng, farm, crops), LAMBDA df :
    Bind(GroupByFieldMean(df.rows, AnomalyCols), LAMBDA grouped :
    Bind(IF IsolationForestRaises(grouped) THEN <<>>
         ELSE FitPredict(ScoreSamples(grouped, AnomalyCols), ContaminationPct),
         LAMBDA pred :
    Bind(SelectSeq([i \in 1..Len(pred) |-> i], LAMBDA i : pred[i] = 0 - 1),
         LAMBDA flagged :
      LET call == Called(farm, crops, df)
          made == [called |-> TRUE, rows |-> grouped, pred |-> pred]
          found == AsSeq([k \in 1..Len(flagged) |-> grouped[flagged[k]].field])
      IN IF df.raised THEN Outcome(df.rng, call, NoAgg, ServerError)
         ELSE IF IsolationForestRaises(grouped)
              THEN Outcome(df.rng, call, made, ServerError)
         ELSE Outcome(df.rng, call, made,
                      Ok([kpi |-> kpi.kpi,
                          ai_message |-> [alert |-> found # <<>>, fields |-> found],
                          yield_chart |-> LineTraces(df.rows)])))))))

\* /api/dashboard-data (lines 884-899)
dashboard_data(f, hash, r, farm, crops) ==
    Bind(get_kpi_data(f, hash, r, farm, crops), LAMBDA kpi :
    Bind(get_ai_recommendation(f, hash, kpi.rng), LAMBDA ai :
    Bind(generate_sample_data(f, hash, ai.rng, farm, crops), LAMBDA df :
      IF kpi.raised THEN Outcome(kpi.rng, kpi.call, NoAgg, ServerError)
      ELSE IF ai.raised THEN Outcome(ai.rng, ai.call, ai.agg, ServerError)
      ELSE IF df.raised
           THEN Outcome(df.rng, Called(farm, crops, df), ai.agg, ServerError)
      ELSE Outcome(df.rng, Called(farm, crops, df), ai.agg,
                   Ok([kpi |-> kpi.kpi, ai_message |-> ai.message,
                       yield_chart |-> LineTraces(df.rows)])))))

\* /api/clustering-data (lines 901-914)
clustering_data(f, hash, r, farm, crops) ==
    Bind(generate_sample_data(f, hash, r, farm, crops), LAMBDA df :
    Bind(GroupByFieldMean(df.rows, ClusterCols), LAMBDA grouped :
    Bind(StandardScaler(grouped, ClusterCols), LAMBDA scaled :
    Bind(IF KMeansRaises(scaled) THEN <<>> ELSE KMeansLabels(scaled, ClusterCols),
         LAMBDA labels :
      LET call == Called(farm, crops, df)
          made == [called |-> TRUE, rows |-> grouped, pred |-> <<>>]
      IN IF df.raised THEN Outcome(df.rng, call, NoAgg, ServerError)
         ELSE IF StandardScalerRaises(grouped) \/ KMeansRaises(scaled)
              THEN Outcome(df.rng, call, made, ServerError)
         ELSE Outcome(df.rng, call, made,
                      Ok(AsSeq([i \in 1..Len(grouped) |->
                                  grouped[i] @@ [cluster |-> labels[i]]])))))))

\* /api/anomalies (lines 976-978)
anomalies(f, hash, r) ==
    Bind(detect_anomalies(f, hash, r), LAMBDA found :
      IF found.raised THEN Outcome(found.rng, found.call, found.agg, ServerError)
      ELSE Outcome(found.rng, found.call, found.agg,
                   Ok([anomalies |-> found.anomalies])))

\* a faulty variant of PageScale, without the test page > 1
PageScaleAlways(forecast, page) ==
    AsSeq([i \in 1..Len(forecast) |->
             forecast[i] * (100 + (page - 1) * PageStepPct)])

\* a faulty variant of PageScale, which leaves every page as the first
PageScaleNone(forecast, page) ==
    AsSeq([i \in 1..Len(forecast) |-> forecast[i] * 100])

\* line 948-949: f * (1 + (page - 1) * 0.05) when page > 1; in hundredths
PageScale(forecast, page) ==
    IF page > 1
    THEN AsSeq([i \in 1..Len(forecast) |->
                  forecast[i] * (100 + (page - 1) * PageStepPct)])
    ELSE AsSeq([i \in 1..Len(forecast) |-> forecast[i] * 100])

\* line 950: 'Day ' + str(i + 1 + (page - 1) * 30) for i in range(30); the
\* label 'Day k' is written k
PageDays(page) == AsSeq([k \in 1..PageLen |-> (k - 1) + 1 + (page - 1) * PageLen])

\* /api/forecast-data (lines 944-951)
forecast_data(f, hash, r, page) ==
    Bind(forecast_yield(f, hash, r, DefaultDays), LAMBDA made :
      IF made.raised THEN Outcome(made.rng, made.call, NoAgg, ServerError)
      ELSE Outcome(made.rng, made.call, NoAgg,
                   Ok([days |-> PageDays(page),
                       forecast |-> PageScale(made.forecast, page)])))

\* /api/chart-data (lines 961-965)
chart_data(f, hash, r) ==
    Bind(generate_sample_data(f, hash, r, NoValue, <<>>), LAMBDA df :
      IF df.raised THEN Outcome(df.rng, Called(NoValue, <<>>, df), NoAgg, ServerError)
      ELSE Outcome(df.rng, Called(NoValue, <<>>, df), NoAgg, Ok(LineTraces(df.rows))))

\* a faulty variant of sensor_data, whose temperature is drawn from the range
\* of soil_moisture
sensor_data_swapped(r) ==
    LET r1 == RngNext(r)
        r2 == RngNext(r1)
        r3 == RngNext(r2)
    IN Outcome(RngNext(r3), NoCall, NoAgg,
               Ok([soil_moisture |-> Round1(Uniform(6000, 8500, r)),
                   temperature |-> Round1(Uniform(6000, 8500, r1)),
                   humidity |-> Round1(Uniform(5000, 8000, r2)),
                   light |-> RandInt(800, 1000, r3)]))

\* /api/sensor-data (lines 967-974): four draws; the rounded values in tenths
sensor_data(r) ==
    LET r1 == RngNext(r)
        r2 == RngNext(r1)
        r3 == RngNext(r2)
    IN Outcome(RngNext(r3), NoCall, NoAgg,
               Ok([soil_moisture |-> Round1(Uniform(6000, 8500, r)),
                   temperature |-> Round1(Uniform(1800, 3200, r1)),
                   humidity |-> Round1(Uniform(5000, 8000, r2)),
                   light |-> RandInt(800, 1000, r3)]))

\* line 111-115: one randint(200, 500) per field, 'Due soon' above 400
predict_maintenance(r) ==
    LET r1 == RngNext(r)
        r2 == RngNext(r1)
        r3 == RngNext(r2)
        starts == <<r, r1, r2, r3>>
        hours == [i \in 1..Len(FieldNames) |-> RandInt(200, 500, starts[i])]
    IN [rng |-> RngNext(r3),
        hours |-> AsSeq(hours),
        status |-> AsSeq([i \in 1..Len(FieldNames) |->
                           IF hours[i] > 400 THEN "Due soon" ELSE "OK"])]

\* /api/anomaly-chart-data (lines 916-922): np.random.uniform(-0.5, 0.5, 4),
\* in hundredths; a bar is red when its score is above 0.2
anomaly_chart_data(r) ==
    LET r1 == RngNext(r)
        r2 == RngNext(r1)
        r3 == RngNext(r2)
        starts == <<r, r1, r2, r3>>
        scores == [i \in 1..Len(FieldNames) |-> Uniform(0 - 50, 50, starts[i])]
    IN Outcome(RngNext(r3), NoCall, NoAgg,
               Ok([x |-> FieldNames, y |-> AsSeq(scores),
                   marker_color |-> AsSeq([i \in 1..Len(FieldNames) |->
                       IF scores[i] > 20 THEN "red" ELSE "green"])]))

\* /api/maintenance-data (lines 980-986)
maintenance_data(r) ==
    LET data == predict_maintenance(r)
    IN Outcome(data.rng, NoCall, NoAgg,
               Ok([fields |-> FieldNames, hours |-> data.hours,
                   maintenance |-> AsSeq([i \in 1..Len(FieldNames) |->
                       [hours |-> data.hours[i], status |-> data.status[i]]])]))

\* /api/carbon-data (lines 988-994): four rounded draws, in tenths, then
\* the offset
carbon_data(r) ==
    LET r1 == RngNext(r)
        r2 == RngNext(r1)
        r3 == RngNext(r2)
        r4 == RngNext(r3)
        starts == <<r, r1, r2, r3>>
    IN Outcome(RngNext(r4), NoCall, NoAgg,
               Ok([fields |-> FieldNames,
                   emissions |-> AsSeq([i \in 1..Len(FieldNames) |->
                                          Round1(Uniform(1500, 3000, starts[i]))]),
                   offset |-> RandInt(40, 80, r4)]))

(***************************************************************************)
(* The state: the generator np.random shares between all calls, the        *)
(* backing file, the process's string hashes, the module constant of line  *)
(* 36, and what the last operation was asked, called, aggregated and       *)
(* answered.  memo is a history variable: the first call of                *)
(* generate_sample_data without crops that drew its rows, and how many     *)
(* calls with the same farm have been made since, counted up to MaxRepeat. *)
(***************************************************************************)
VARIABLES rng, file, pyhash, REAL_DATA_AVAILABLE, req, data, agg, resp, memo,
          threads

vars == <<rng, file, pyhash, REAL_DATA_AVAILABLE, req, data, agg, resp, memo,
          threads>>

Farms == {"", "Green Valley Farm", "Sunny Acres"}
CropLists == {<<>>, <<"Corn">>, <<"Corn", "Wheat">>, <<"Rice">>}
Pages == (0 - 1)..MaxPage

\* hash() of the farm names: any integers, fixed for the life of the process
\* filter values no farm and no crop of the data has
UnknownFarm == "Nowhere Farm"
UnknownCrop == "Barley"

Hashes ==
    {[farm \in Farms \cup {UnknownFarm} |->
         CASE farm = "Green Valley Farm" -> 0 - 158
           [] farm = "Sunny Acres" -> 100
           [] farm = UnknownFarm -> 13
           [] OTHER -> 0],
     [farm \in Farms \cup {UnknownFarm} |->
         CASE farm = "Green Valley Farm" -> 7
           [] farm = "Sunny Acres" -> 0 - 41
           [] farm = UnknownFarm -> 0 - 2
           [] OTHER -> 0]}

Request(ep, farm, crops, page, days) ==
    [endpoint |-> ep, farm |-> farm, crops |-> crops, page |-> page, days |-> days]

NoRequest == Request("", NoValue, <<>>, 1, DefaultDays)

\* the history is not kept / kept and still empty
NoMemo == [kept |-> FALSE, set |-> FALSE, farm |-> NoValue, rows |-> <<>>, calls |-> 0]
EmptyMemo == [NoMemo EXCEPT !.kept = TRUE]

Repeats(m, call) ==
    /\ m.set
    /\ call.called /\ ~call.real /\ ~call.raised
    /\ call.crops = <<>> /\ call.farm = m.farm

Remember(m, call) ==
    IF ~m.kept THEN m
    ELSE IF Repeats(m, call)
         THEN [m EXCEPT !.calls = IF m.calls < MaxRepeat THEN m.calls + 1 ELSE m.calls]
    ELSE IF ~m.set /\ call.called /\ ~call.real /\ ~call.raised /\ call.crops = <<>>
         THEN [kept |-> TRUE, set |-> TRUE, farm |-> call.farm, rows |-> call.rows,
               calls |-> 1]
    ELSE m

Start ==
    /\ rng \in 0..(RngMod - 1)
    /\ pyhash \in Hashes
    /\ REAL_DATA_AVAILABLE = ~load_real_data(file).none
    /\ req = NoRequest
    /\ data = NoCall
    /\ agg = NoAgg
    /\ resp = Ok(<<>>)

\* two requests served by two threads of the development server (app.run,
\* line 1014): one is inside generate_sample_data, the other inside
\* sensor_data.  stage is where the first is, starts the states its columns
\* were drawn from, drawn the draws the second has made.
NoThreads == [stage |-> "none", farm |-> NoValue, starts |-> <<>>, drawn |-> 0]

Init ==
    /\ file \in FileStates
    /\ memo = NoMemo
    /\ threads = NoThreads
    /\ Start

\* an operation answers: the observable effect of a handler or helper
Answer(request, out) ==
    /\ req' = request
    /\ rng' = out.rng
    /\ data' = out.call
    /\ agg' = out.agg
    /\ resp' = out.resp
    /\ memo' = Remember(memo, out.call)
    /\ UNCHANGED <<file, pyhash, REAL_DATA_AVAILABLE, threads>>

DashboardData ==
    \E farm \in Farms, crops \in CropLists :
      \E out \in {dashboard_data(file, pyhash, rng, farm, crops)} :
        Answer(Request("dashboard-data", farm, crops, 1, DefaultDays), out)

ClusteringData ==
    \E farm \in Farms, crops \in CropLists :
      \E out \in {clustering_data(file, pyhash, rng, farm, crops)} :
        Answer(Request("clustering-data", farm, crops, 1, DefaultDays), out)

Anomalies ==
    \E out \in {anomalies(file, pyhash, rng)} :
      Answer(Request("anomalies", NoValue, <<>>, 1, DefaultDays), out)

\* the query may carry farm and crops; forecast_data reads page only
ForecastData ==
    \E page \in Pages, farm \in {NoValue, "Sunny Acres"}, crops \in {<<>>, <<"Corn">>} :
      \E out \in {forecast_data(file, pyhash, rng, page)} :
        Answer(Request("forecast-data", farm, crops, page, DefaultDays), out)

\* a call of the helper forecast_yield(days) itself
ForecastYield ==
    \E days \in 0..MaxDays :
      \E made \in {forecast_yield(file, pyhash, rng, days)} :
        Answer(Request("forecast_yield", NoValue, <<>>, 1, days),
               Outcome(made.rng, made.call, NoAgg,
                       IF made.raised THEN ServerError ELSE Ok(made.forecast)))

ChartData ==
    \E out \in {chart_data(file, pyhash, rng)} :
      Answer(Request("chart-data", NoValue, <<>>, 1, DefaultDays), out)

SensorData ==
    \E out \in {sensor_data(rng)} :
      Answer(Request("sensor-data", NoValue, <<>>, 1, DefaultDays), out)

AnomalyChartData ==
    \E out \in {anomaly_chart_data(rng)} :
      Answer(Request("anomaly-chart-data", NoValue, <<>>, 1, DefaultDays), out)

MaintenanceData ==
    \E out \in {maintenance_data(rng)} :
      Answer(Request("maintenance-data", NoValue, <<>>, 1, DefaultDays), out)

CarbonData ==
    \E out \in {carbon_data(rng)} :
      Answer(Request("carbon-data", NoValue, <<>>, 1, DefaultDays), out)

\* the date ranges a call is given: None, written <<>>, or <<start, end>>
DateRanges == {<<>>, <<Ordinal(<<2024, 2, 1>>), Ordinal(<<2024, 2, 10>>)>>}

\* a call of generate_sample_data(farm, start_date, end_date, crops) itself;
\* the body (lines 39-71) reads neither start_date nor end_date
GenerateSampleData ==
    \E farm \in {NoValue, UnknownFarm}, crops \in {<<>>, <<UnknownCrop>>},
       range \in DateRanges :
      \E df \in {generate_sample_data(file, pyhash, rng, farm, crops)} :
        Answer([endpoint |-> "generate_sample_data", farm |-> farm, crops |-> crops,
                page |-> 1, days |-> DefaultDays, range |-> range],
               Outcome(df.rng, Called(farm, crops, df), NoAgg,
                       IF df.raised THEN ServerError ELSE Ok(<<>>)))

\* the JSON body of a POST: null, or an object whose 'field' is the given
\* value, NoValue when the object has no such key
JsonNull == [kind |-> "null", field |-> NoValue]
JsonObject(field) == [kind |-> "object", field |-> field]
Bodies == {JsonNull, JsonObject(NoValue), JsonObject("A")}

\* POST /api/activate-valves (lines 996-998)
activate_valves(r) ==
    Outcome(r, NoCall, NoAgg, Ok([message |-> <<"All valves activated successfully!">>]))

\* POST /api/toggle-valve (lines 1000-1004): data.get raises when the body
\* is null; str(None) is 'None'
toggle_valve(r, body) ==
    IF body.kind = "null" THEN Outcome(r, NoCall, NoAgg, ServerError)
    ELSE Outcome(r, NoCall, NoAgg,
                 Ok([message |-> <<"Valve for Field ", body.field, " toggled.">>]))

\* a faulty variant of save_settings, which takes a draw from the generator
save_settings_drawing(r, settings) ==
    Outcome(RngNext(r), NoCall, NoAgg, Ok([message |-> <<"Settings saved successfully!">>]))

\* POST /api/save-settings (lines 1006-1010): the settings are printed
save_settings(r, settings) ==
    Outcome(r, NoCall, NoAgg, Ok([message |-> <<"Settings saved successfully!">>]))

PostRequest(ep, body) ==
    [endpoint |-> ep, farm |-> NoValue, crops |-> <<>>, page |-> 1,
     days |-> DefaultDays, json |-> body]

ActivateValves ==
    \E out \in {activate_valves(rng)} :
      Answer(PostRequest("activate-valves", JsonNull), out)

ToggleValve ==
    \E body \in Bodies :
      \E out \in {toggle_valve(rng, body)} :
        Answer(PostRequest("toggle-valve", body), out)

SaveSettings ==
    \E settings \in Bodies :
      \E out \in {save_settings(rng, settings)} :
        Answer(PostRequest("save-settings", settings), out)

\* a faulty variant of FileWrite, after which the module constant of line 36
\* says what the file has become
FileWriteSettingFlag ==
    /\ file' \in FileStates \ {file}
    /\ REAL_DATA_AVAILABLE' = ~load_real_data(file').none
    /\ req' = NoRequest
    /\ data' = NoCall
    /\ agg' = NoAgg
    /\ resp' = Ok(<<>>)
    /\ UNCHANGED <<rng, pyhash, memo, threads>>

\* agriculture.csv is written, replaced or removed while the server runs
FileWrite ==
    /\ file' \in FileStates \ {file}
    /\ req' = NoRequest
    /\ data' = NoCall
    /\ agg' = NoAgg
    /\ resp' = Ok(<<>>)
    /\ UNCHANGED <<rng, pyhash, REAL_DATA_AVAILABLE, memo, threads>>

Handlers ==
    \/ DashboardData
    \/ ClusteringData
    \/ Anomalies
    \/ ForecastData
    \/ ForecastYield
    \/ ChartData
    \/ SensorData
    \/ AnomalyChartData
    \/ MaintenanceData
    \/ CarbonData

Next ==
    \/ Handlers
    \/ GenerateSampleData
    \/ ActivateValves
    \/ ToggleValve
    \/ SaveSettings
    \/ FileWrite

Spec == Init /\ [][Next]_vars

\* the server over a file that stays as it is, with the history kept
RepeatFiles == {NoFile, Lacking("date"), CompleteFile(GoodRows, {})}

InitRepeat ==
    /\ file \in RepeatFiles
    /\ memo = EmptyMemo
    /\ threads = NoThreads
    /\ Start

SpecRepeat == InitRepeat /\ [][Handlers]_vars

(***************************************************************************)
(* Two requests at once.  The threads share the generator of np.random;   *)
(* each call of np.random is one step, and a thread can be scheduled       *)
(* between any two of them.                                                *)
(***************************************************************************)
\* the columns of lines 55-67
NColumns == 13

\* the draws of sensor_data, lines 970-973
SensorDraws == 4

\* the farms the first request asks for
ThreadFarms == {NoValue, "Green Valley Farm"}

InitConcurrent ==
    /\ file = NoFile
    /\ memo = NoMemo
    /\ \E farm \in ThreadFarms :
         threads = [stage |-> "seed", farm |-> farm, starts |-> <<>>, drawn |-> 0]
    /\ Start

\* line 39-40 and 50: no file is usable; np.random.seed
Seed ==
    /\ threads.stage = "seed"
    /\ load_real_data(file).none
    /\ rng' = NpSeed(SeedOf(threads.farm, pyhash))
    /\ threads' = [threads EXCEPT !.stage = "draw"]
    /\ UNCHANGED <<file, pyhash, REAL_DATA_AVAILABLE, req, data, agg, resp, memo>>

\* one of lines 55-67: the next column is drawn
DrawColumn ==
    /\ threads.stage = "draw"
    /\ Len(threads.starts) < NColumns
    /\ rng' = AfterColumn(rng)
    /\ threads' = [threads EXCEPT !.starts = Append(@, rng)]
    /\ UNCHANGED <<file, pyhash, REAL_DATA_AVAILABLE, req, data, agg, resp, memo>>

\* lines 53 and 69-71: the frame is made of the columns and returned
Return ==
    /\ threads.stage = "draw"
    /\ Len(threads.starts) = NColumns
    /\ \E rows \in {FrameOfColumns(threads.starts)} :
         data' = [called |-> TRUE, farm |-> threads.farm, crops |-> <<>>,
                  raised |-> FALSE, real |-> FALSE, rows |-> rows]
    /\ req' = [endpoint |-> "generate_sample_data", farm |-> threads.farm,
               crops |-> <<>>, page |-> 1, days |-> DefaultDays, range |-> <<>>]
    /\ resp' = Ok(<<>>)
    /\ threads' = [threads EXCEPT !.stage = "done"]
    /\ UNCHANGED <<rng, file, pyhash, REAL_DATA_AVAILABLE, agg, memo>>

\* one of lines 970-973 in the other thread: a draw of sensor_data
SensorDraw ==
    /\ threads.stage # "none"
    /\ threads.drawn < SensorDraws
    /\ rng' = RngNext(rng)
    /\ threads' = [threads EXCEPT !.drawn = @ + 1]
    /\ UNCHANGED <<file, pyhash, REAL_DATA_AVAILABLE, req, data, agg, resp, memo>>

NextConcurrent ==
    \/ Seed
    \/ DrawColumn
    \/ Return
    \/ SensorDraw

SpecConcurrent == InitConcurrent /\ [][NextConcurrent]_vars

(***************************************************************************)
(* Properties.  They are stated on what the last operation was asked       *)
(* (req), on its last call of generate_sample_data (data), on its          *)
(* per-field aggregation (agg) and on its answer (resp).                   *)
(***************************************************************************)
\* the distinct fields of a sequence of rows
FieldsOf(rows) == {rows[i].field : i \in 1..Len(rows)}

FixedFields == Range(FieldNames)

\* C1, as the code has it: every row generate_sample_data returns has a
\* crop_type among the requested crops when crops are requested, in both
\* modes; its field is one of the fixed field identifiers when the rows are
\* synthetic (the rows of a backing file keep whatever field they have).
C1_RowsWithinFilters ==
    (data.called /\ ~data.raised) =>
       \A i \in 1..Len(data.rows) :
          /\ data.crops # <<>> => data.rows[i].crop_type \in Range(data.crops)
          /\ ~data.real => data.rows[i].field \in FixedFields

\* C1 witness: a synthetic call with a crop filter that kept some rows and
\* dropped others
C1_Witness ==
    /\ data.called /\ ~data.real
    /\ data.crops = <<"Corn", "Wheat">>
    /\ Len(data.rows) > 0
    /\ Len(data.rows) < Len(SyntheticFrames[1].rows)

\* C1 as it is claimed: in both modes every returned row has a crop_type
\* among the requested crops and a field among the fixed field identifiers.
C1_AsClaimed ==
    (data.called /\ ~data.raised) =>
       \A i \in 1..Len(data.rows) :
          /\ data.crops # <<>> => data.rows[i].crop_type \in Range(data.crops)
          /\ data.rows[i].field \in FixedFields

\* C2: the per-field aggregation of /api/clustering-data and of
\* detect_anomalies has exactly one record per distinct field of the filtered
\* dataset, and is empty when no row passes the filter.
C2_OneRecordPerField ==
    (req.endpoint \in {"clustering-data", "anomalies"} /\ agg.called) =>
       /\ FieldsOf(agg.rows) = FieldsOf(data.rows)
       /\ Len(agg.rows) = Cardinality(FieldsOf(data.rows))
       /\ (data.rows = <<>> => agg.rows = <<>>)

\* C2 witness: farm "Green Valley Farm", crops ["Corn"] on the synthetic
\* dataset: the aggregation has the fields of the Corn rows, not all four
C2_Witness ==
    /\ req.endpoint = "clustering-data"
    /\ req.farm = "Green Valley Farm" /\ req.crops = <<"Corn">>
    /\ ~data.real /\ agg.called
    /\ Len(agg.rows) > 0
    /\ Len(agg.rows) < Len(FieldNames)
    /\ \A i \in 1..Len(data.rows) : data.rows[i].crop_type = "Corn"

\* C3: a request to /api/clustering-data whose filtered dataset has at least
\* 3 distinct fields is answered with every such field exactly once, each
\* with a cluster among 0, 1, 2.
C3_EveryFieldOneCluster ==
    (/\ req.endpoint = "clustering-data"
     /\ data.called /\ ~data.raised
     /\ Cardinality(FieldsOf(data.rows)) >= NClusters) =>
       /\ ~resp.raised
       /\ FieldsOf(resp.body) = FieldsOf(data.rows)
       /\ Len(resp.body) = Cardinality(FieldsOf(data.rows))
       /\ \A i \in 1..Len(resp.body) : resp.body[i].cluster \in {0, 1, 2}

\* C3 witness: a filtered request answered with exactly three fields
C3_Witness ==
    /\ req.endpoint = "clustering-data"
    /\ req.crops # <<>>
    /\ ~resp.raised
    /\ Len(resp.body) = NClusters
    /\ \E i \in 1..Len(resp.body) : resp.body[i].cluster > 0

\* C4: when /api/forecast-data is asked for page 1 and then, over the same
\* file, for a page p > 1, every value of the second answer is the value of
\* the first times 1 + 0.05 * (p - 1), and every day label is the label of
\* the first plus 30 * (p - 1); the answers have 30 elements.
C4_PageScaling ==
    [][(/\ req.endpoint = "forecast-data" /\ req.page = 1 /\ ~resp.raised
        /\ req'.endpoint = "forecast-data" /\ req'.page > 1 /\ ~resp'.raised) =>
          /\ Len(resp.body.forecast) = PageLen
          /\ Len(resp'.body.forecast) = PageLen
          /\ \A i \in 1..PageLen :
               /\ resp.body.days[i] = i
               /\ 100 * resp'.body.forecast[i]
                    = (100 + 5 * (req'.page - 1)) * resp.body.forecast[i]
               /\ resp'.body.days[i] = resp.body.days[i] + 30 * (req'.page - 1)
      ]_vars

\* C4 witness: page 2 answered, with values 5% above the observation the
\* forecast repeats, and labels from Day 31
C4_Witness ==
    /\ req.endpoint = "forecast-data" /\ req.page = 2 /\ ~resp.raised
    /\ Len(resp.body.forecast) = PageLen
    /\ resp.body.forecast[1] = 105 * data.rows[Len(data.rows)].crop_yield
    /\ resp.body.forecast[1] > 0
    /\ resp.body.days[1] = 31

\* C5 as it is claimed: forecast_yield(days), called over a dataset that has
\* rows, returns a sequence of exactly days elements for every days >= 0, the
\* empty sequence for days = 0.
C5_HorizonLength ==
    (/\ req.endpoint = "forecast_yield"
     /\ data.called /\ ~data.raised /\ data.rows # <<>>) =>
       /\ ~resp.raised
       /\ Len(resp.body) = req.days

\* round(0.2 * n)
RoundFifth(n) == (2 * n + 5) \div 10

\* C6: detect_anomalies on N per-field rows flags round(0.2 * N) fields, one
\* more or one fewer at most; the fields it returns are fields of the dataset
\* and none is returned twice.
C6_FlaggedShare ==
    (req.endpoint = "anomalies" /\ ~resp.raised) =>
       LET found == resp.body.anomalies
           n == Len(agg.rows)
       IN /\ Len(found) >= RoundFifth(n) - 1
          /\ Len(found) <= RoundFifth(n) + 1
          /\ \A k \in 1..Len(found) : found[k] \in FieldsOf(data.rows)
          /\ \A k, l \in 1..Len(found) : found[k] = found[l] => k = l

\* C6 witness: the synthetic dataset of four fields, one of them flagged
C6_Witness ==
    /\ req.endpoint = "anomalies" /\ ~resp.raised
    /\ ~data.real
    /\ Len(agg.rows) = 4
    /\ Len(resp.body.anomalies) = 1

\* C7: every answer of /api/sensor-data, whatever was requested before, has
\* soil_moisture in [60, 85], temperature in [18, 32], humidity in [50, 80]
\* (in tenths) and light in [800, 1000).
C7_SensorRanges ==
    req.endpoint = "sensor-data" =>
       /\ ~resp.raised
       /\ resp.body.soil_moisture >= 600 /\ resp.body.soil_moisture <= 850
       /\ resp.body.temperature >= 180 /\ resp.body.temperature <= 320
       /\ resp.body.humidity >= 500 /\ resp.body.humidity <= 800
       /\ resp.body.light >= 800 /\ resp.body.light < 1000

\* C7 witness: an answer with soil_moisture at the upper end of its range,
\* which rounding reaches
C7_Witness ==
    /\ req.endpoint = "sensor-data"
    /\ resp.body.soil_moisture = 850
    /\ resp.body.temperature < 320

\* a file that exists and can be read but lacks a required column
LacksColumn(f) == f.exists /\ f.readable /\ \E col \in Required : col \notin f.columns

\* the dates of the file's rows, as a frame has them
FileDates(f) ==
    {Ordinal(f.rows[j].date) : j \in {k \in 1..Len(f.rows) : IsDate(f.rows[k].date)}}

\* C8: when agriculture.csv exists but lacks one of the 14 required columns,
\* generate_sample_data returns the synthetic dataset and no row of the file.
C8_LackingFileIsAbsent ==
    (LacksColumn(file) /\ data.called) =>
       /\ ~data.real /\ ~data.raised
       /\ \A i \in 1..Len(data.rows) :
            /\ data.rows[i].field \in FixedFields
            /\ data.rows[i].date \notin FileDates(file)

\* C8 witness: a call over a file without its crop_type column, answered
\* with the whole synthetic dataset
C8_Witness ==
    /\ LacksColumn(file) /\ "crop_type" \notin file.columns
    /\ data.called /\ data.crops = <<>>
    /\ Len(data.rows) = Len(SyntheticFrames[1].rows)

\* a file whose content cannot be read, or that has a date that cannot be
\* parsed
Corrupt(f) ==
    f.exists /\ (~f.readable \/ \E j \in 1..Len(f.rows) : ~IsDate(f.rows[j].date))

\* C9 as it is claimed: over a backing file that is unreadable or corrupt,
\* a schema-complete file with an unparseable date included,
\* generate_sample_data never raises to its caller.
C9_NeverRaises ==
    (Corrupt(file) /\ data.called) => ~data.raised

\* C10: when the rows are synthetic, a call of generate_sample_data without
\* crops returns the rows that the first such call with the same farm
\* returned, whatever was requested and drawn in between.
C10_SameFarmSameRows ==
    Repeats(memo, data) => data.rows = memo.rows

\* C10 witness: a second call with the farm "Sunny Acres", answered with the
\* whole synthetic dataset
C10_Witness ==
    /\ Repeats(memo, data)
    /\ memo.calls = MaxRepeat
    /\ memo.farm = "Sunny Acres"
    /\ req.endpoint = "clustering-data"
    /\ Len(data.rows) = Len(SyntheticFrames[1].rows)

\* C12 as it is claimed: a call of generate_sample_data leaves the state of
\* the process as it was: the generator of np.random, REAL_DATA_AVAILABLE and
\* the backing file.
C12_NoSideEffect ==
    [][(req'.endpoint = "generate_sample_data" /\ data'.called) =>
          /\ rng' = rng
          /\ REAL_DATA_AVAILABLE' = REAL_DATA_AVAILABLE
          /\ file' = file
      ]_vars

\* C13 as it is claimed: when a call of generate_sample_data is given a date
\* range [start, end], every row it returns has its date within the range.
C13_DatesWithinRange ==
    (/\ req.endpoint = "generate_sample_data"
     /\ req.range # <<>>
     /\ data.called /\ ~data.raised) =>
       \A i \in 1..Len(data.rows) :
          data.rows[i].date >= req.range[1] /\ data.rows[i].date <= req.range[2]

\* C14, as the code has it: without a usable backing file and without crops
\* the dataset has one row per day of 2024-01-01 .. 2024-03-31, which are 91
\* days, every field among Field A .. Field D and every crop_type among Corn,
\* Wheat, Soybeans.  Dates are counted in days from 2024-01-01.
C14_SyntheticWindow ==
    (data.called /\ ~data.real /\ data.crops = <<>>) =>
       /\ Len(data.rows) = 91
       /\ \A i \in 1..Len(data.rows) :
            /\ data.rows[i].date = i - 1
            /\ data.rows[i].field \in {"Field A", "Field B", "Field C", "Field D"}
            /\ data.rows[i].crop_type \in {"Corn", "Wheat", "Soybeans"}

\* C14 witness: a synthetic dataset whose last row is 2024-03-31, the 91st
\* day, with every field and every crop in it
C14_Witness ==
    /\ data.called /\ ~data.real /\ data.crops = <<>>
    /\ data.rows # <<>>
    /\ data.rows[Len(data.rows)].date = Ordinal(<<2024, 3, 31>>)
    /\ Ordinal(<<2024, 3, 31>>) = 90
    /\ FieldsOf(data.rows) = FixedFields
    /\ {data.rows[i].crop_type : i \in 1..Len(data.rows)} = Range(CropNames)

\* C14 as it is claimed: the synthetic dataset without crops has exactly 90
\* rows, one per day of a window of 90 days, with the fixed fields and crops.
C14_AsClaimed ==
    (data.called /\ ~data.real /\ data.crops = <<>>) =>
       /\ Len(data.rows) = 90
       /\ \A i \in 1..Len(data.rows) :
            /\ data.rows[i].date = i - 1
            /\ data.rows[i].field \in {"Field A", "Field B", "Field C", "Field D"}
            /\ data.rows[i].crop_type \in {"Corn", "Wheat", "Soybeans"}

\* the field names of a sequence of records, in their order
NamesOf(records) == AsSeq([i \in 1..Len(records) |-> records[i].field])

\* C15, as the code has it: the records of the per-field aggregation, and of
\* the answer of /api/clustering-data, are in ascending order of the field
\* name.
C15_SortedByName ==
    /\ agg.called =>
         \A i, j \in 1..Len(agg.rows) :
            i < j => AlphaRank(agg.rows[i].field) < AlphaRank(agg.rows[j].field)
    /\ (req.endpoint = "clustering-data" /\ ~resp.raised) =>
         NamesOf(resp.body) = NamesOf(agg.rows)

\* C15 witness: an answer of /api/clustering-data whose order is not the
\* order the fields first appear in
C15_Witness ==
    /\ req.endpoint = "clustering-data" /\ ~resp.raised
    /\ Len(resp.body) >= NClusters
    /\ NamesOf(resp.body) # FirstSeen(data.rows)

\* C15 as it is claimed: the records of the per-field aggregation are in the
\* order in which the fields first appear in the dataset.
C15_AsClaimed ==
    (req.endpoint = "clustering-data" /\ agg.called) =>
       NamesOf(agg.rows) = FirstSeen(data.rows)

\* C16 as it is claimed: /api/clustering-data over a filtered dataset of 1 or
\* 2 distinct fields answers, without an error, one record per field with a
\* cluster among 0, 1, 2.
C16_FewFieldsAnswered ==
    (/\ req.endpoint = "clustering-data"
     /\ data.called /\ ~data.raised
     /\ Cardinality(FieldsOf(data.rows)) \in {1, 2}) =>
       /\ ~resp.raised
       /\ Len(resp.body) = Cardinality(FieldsOf(data.rows))
       /\ \A i \in 1..Len(resp.body) : resp.body[i].cluster \in {0, 1, 2}

\* C17 as it is claimed: over a filtered dataset without rows,
\* /api/clustering-data and /api/dashboard-data answer (an empty result)
\* instead of failing with an exception.
C17_EmptyDatasetAnswered ==
    (/\ req.endpoint \in {"clustering-data", "dashboard-data"}
     /\ data.called /\ ~data.raised
     /\ data.rows = <<>>) =>
       ~resp.raised

\* C18 as it is claimed: no failure of an analytics operator (ARIMA, KMeans,
\* IsolationForest) leaves the handler as an exception: once its dataset is
\* loaded, the handler answers.
C18_OperatorFailureHandled ==
    (/\ req.endpoint \in {"forecast-data", "clustering-data", "anomalies"}
     /\ data.called /\ ~data.raised) =>
       ~resp.raised

\* C19 as it is claimed: a farm or a crop that is none of the data's matches
\* no row: generate_sample_data returns no rows for it.
C19_UnknownMatchesNothing ==
    (/\ req.endpoint = "generate_sample_data"
     /\ data.called /\ ~data.raised
     /\ (req.farm = UnknownFarm \/ UnknownCrop \in Range(req.crops))) =>
       data.rows = <<>>

PostEndpoints == {"activate-valves", "toggle-valve", "save-settings"}

C11_AsIfAlone ==
    threads.stage = "done" =>
       data.rows = SyntheticFrames[NpSeed(SeedOf(threads.farm, pyhash)) + 1].rows

\* C21 as it is claimed: the fields /api/anomalies lists are the fields the
\* detector predicts -1 for, and a bar of /api/anomaly-chart-data is red
\* exactly when its score is negative.
C21_NegativeIsAnomalous ==
    /\ (req.endpoint = "anomalies" /\ ~resp.raised) =>
          Range(resp.body.anomalies) =
             {agg.rows[i].field : i \in {j \in 1..Len(agg.pred) : agg.pred[j] = 0 - 1}}
    /\ (req.endpoint = "anomaly-chart-data" /\ ~resp.raised) =>
          \A i \in 1..Len(resp.body.y) :
             (resp.body.marker_color[i] = "red") <=> (resp.body.y[i] < 0)

\* C22: in synthetic mode the rows of generate_sample_data(farm, crops) are
\* the rows of generate_sample_data(farm) whose crop_type is among crops, in
\* the same order and with the same values; without crops (None or the empty
\* list) they are all the rows of generate_sample_data(farm).
C22_FilterCommutes ==
    (data.called /\ ~data.real /\ ~data.raised) =>
       \E whole \in {generate_sample_data(file, pyhash, rng, data.farm, <<>>).rows} :
          data.rows = IF data.crops = <<>> THEN whole
                      ELSE SelectSeq(whole, LAMBDA row :
                              \E k \in 1..Len(data.crops) :
                                 row.crop_type = data.crops[k])

\* C22 witness: a dashboard request for one farm and one crop, answered from
\* synthetic rows, some of which the crop filter dropped
C22_Witness ==
    /\ req.endpoint = "dashboard-data" /\ ~resp.raised
    /\ data.called /\ ~data.real
    /\ data.farm = "Sunny Acres" /\ data.crops = <<"Corn">>
    /\ Len(data.rows) > 0
    /\ Len(data.rows) < Len(DateRange(StartDate, EndDate))

RandomEndpoints ==
    {"sensor-data", "carbon-data", "maintenance-data", "anomaly-chart-data"}

\* what a random endpoint answers when the generator is in state r
RandomResponse(endpoint, r) ==
    CASE endpoint = "sensor-data" -> sensor_data(r).resp
      [] endpoint = "carbon-data" -> carbon_data(r).resp
      [] endpoint = "maintenance-data" -> maintenance_data(r).resp
      [] endpoint = "anomaly-chart-data" -> anomaly_chart_data(r).resp

\* the state np.random is in after a dataset was synthesized for farm: that
\* of the seed of farm, advanced by the draws of the 13 columns
SeededBy(farm) == SyntheticFrames[NpSeed(SeedOf(farm, pyhash)) + 1].rng

\* C23: when a request has synthesized its dataset, what /api/sensor-data,
\* /api/carbon-data, /api/maintenance-data or /api/anomaly-chart-data answers
\* to the next request is a function of the farm the synthesizing request
\* called generate_sample_data with (its farm parameter where the handler
\* reads one, None where it does not) and of the process's hash of it: the
\* state the generator was in before the pair does not matter.
C23_DeterminedByFarm ==
    [][(/\ data.called /\ ~data.real /\ ~data.raised
        /\ req'.endpoint \in RandomEndpoints) =>
          resp' = RandomResponse(req'.endpoint, SeededBy(data.farm))
      ]_vars

\* C23 witness: with no usable file, /api/carbon-data answers what it
\* answers after a dataset synthesized for "Green Valley Farm", which is not
\* what it answers after one synthesized without farm
C23_Witness ==
    /\ req.endpoint = "carbon-data"
    /\ load_real_data(file).none
    /\ resp = carbon_data(SeededBy("Green Valley Farm")).resp
    /\ resp # carbon_data(SeededBy(NoValue)).resp

\* C24: the ai_message of /api/dashboard-data is the message made from the
\* dataset generate_sample_data() returns without any filter, whatever farm
\* and crops the request carries; the forecast of /api/forecast-data is the
\* forecast of that dataset, scaled by the page, whatever farm and crops the
\* request carries.
C24_AnomaliesIgnoreFilters ==
    /\ (req.endpoint = "dashboard-data" /\ ~resp.raised) =>
          resp.body.ai_message
             = get_ai_recommendation(file, pyhash, rng).message
    /\ (req.endpoint = "forecast-data" /\ ~resp.raised) =>
          resp.body.forecast
             = PageScale(forecast_yield(file, pyhash, rng, DefaultDays).forecast,
                         req.page)

\* C24 witness: a dashboard request whose farm and crop filters left rows of
\* one field only, answered with an alert for another field
C24_Witness ==
    /\ req.endpoint = "dashboard-data" /\ ~resp.raised
    /\ req.farm = "Sunny Acres" /\ req.crops = <<"Corn">>
    /\ data.real
    /\ FieldsOf(data.rows) = {"Field A"}
    /\ resp.body.ai_message.alert
    /\ "Field A" \notin Range(resp.body.ai_message.fields)

\* a file load_real_data returns a frame for
Usable(f) == f.exists /\ f.readable /\ Required \subseteq f.columns

\* C25: no step changes REAL_DATA_AVAILABLE, and every call of
\* generate_sample_data takes its rows from the file exactly when the file is
\* usable at the time of the call, whatever REAL_DATA_AVAILABLE says: when
\* the file appears, disappears or becomes invalid after startup, the next
\* request changes source and the flag keeps its startup value.
C25_FlagFrozenSourceLive ==
    [][/\ REAL_DATA_AVAILABLE' = REAL_DATA_AVAILABLE
       /\ data'.called => (data'.real <=> Usable(file'))
      ]_vars

\* C25 witness: the file was not usable at startup and is now; a request is
\* answered from its rows while the flag still says synthetic
C25_Witness ==
    /\ ~REAL_DATA_AVAILABLE
    /\ Usable(file)
    /\ data.called /\ data.real /\ ~data.raised
    /\ Len(data.rows) > 0
    /\ \A i \in 1..Len(data.rows) : data.rows[i].date \in FileDates(file)

\* C26: every answer of /api/forecast-data has 30 day labels and 30
\* forecast values, for every page; the i-th label is Day i + 30 * (page - 1),
\* also for page <= 1 (Day -29 .. Day 0 for page 0), and for page <= 1 the
\* values are those of forecast_yield(), unscaled (here in hundredths).
C26_ThirtyOfEach ==
    (req.endpoint = "forecast-data" /\ ~resp.raised) =>
       /\ Len(resp.body.days) = 30
       /\ Len(resp.body.forecast) = 30
       /\ \A i \in 1..30 : resp.body.days[i] = i + 30 * (req.page - 1)
       /\ req.page <= 1 =>
            \E made \in {forecast_yield(file, pyhash, rng, DefaultDays)} :
               \A i \in 1..30 : resp.body.forecast[i] = 100 * made.forecast[i]

\* C26 witness: page 0 answered with the labels Day -29 .. Day 0 and the
\* last observation of the series, unscaled
C26_Witness ==
    /\ req.endpoint = "forecast-data" /\ req.page = 0 /\ ~resp.raised
    /\ resp.body.days[1] = 0 - 29
    /\ resp.body.days[30] = 0
    /\ resp.body.forecast[30] = 100 * data.rows[Len(data.rows)].crop_yield
    /\ resp.body.forecast[30] > 0

====
